---- MODULE Spec2Model ----
(***************************************************************************)
(* binpacking: split a delimited-record file into bucketsN output files,   *)
(* balancing the declared size column.  The model follows src/main.go:     *)
(* splitCmd runs scan, binpack and write; write starts one writerRoutine   *)
(* goroutine per bucket, fed over a buffered channel by the re-read loop.  *)
(*                                                                         *)
(* A record is identified by its position in the input: 0 is the header,   *)
(* j >= 1 the j-th data record.  A bucket index is 0-based as in the code. *)
(***************************************************************************)
EXTENDS Integers, Sequences, FiniteSets, TLC

\* Bounds of the model.
MaxRecords == 3
MaxWeight == 2
MaxBuckets == 2
\* Bounds of the inputs on which scan and binpack are run alone.
PackRecords == 4
PackWeight == 3
PackBuckets == 2
\* Capacity of a bucket's channel; main.go:252 makes it 10000, scaled down here
\* so that a full channel is reachable.
ChanCap == 2

VARIABLES
    input,          \* the data records of the input file, after the header
    bucketsN,       \* args[1] of split, after strconv.Atoi
    pc,             \* position of the main goroutine
    line,           \* scan: line counter
    rpos,           \* scan: data records consumed by the csv reader
    scanErr,        \* scan: r.Read ended the loop with an error other than EOF
    metas,          \* []LineMeta
    k,              \* binpack: metas assigned so far (range loop position)
    buckets,        \* []FileBucket, indexed from 0
    files,          \* write: state of each output file
    lineToBucket,   \* write: map[int]int
    channels,       \* write: contents of each bucket's channel
    closed,         \* write: whether each channel is closed
    wstate,         \* position of each writerRoutine goroutine
    done,           \* number of signals buffered in the done channel
    got,            \* deferred function: signals received from done
    out,            \* records written to each csv.Writer, in order
    rd,             \* write: records consumed by the csv reader (header included)
    cur,            \* write: the record the last r.Read returned
    lineNum,        \* write: lineNum
    sent,           \* history: records sent on each channel, in order
    access,         \* history: who called Write or Flush on each csv.Writer
    prev            \* outcome of an earlier run on the same arguments, if any

vars == <<input, bucketsN, pc, line, rpos, scanErr, metas, k, buckets, files,
          lineToBucket, channels, closed, wstate, done, got, out, rd, cur,
          lineNum, sent, access, prev>>

scanVars == <<line, rpos, scanErr>>
packVars == <<k, buckets>>
writeVars == <<files, lineToBucket, channels, closed, wstate, done, got, out,
               rd, cur, lineNum, sent, access>>

\* One call of Write or Flush on a csv.Writer: by the main goroutine, or by
\* the writerRoutine of bucket idx.
ByMain(op) == [by |-> "main", idx |-> -1, op |-> op]
ByWriter(i, op) == [by |-> "writer", idx |-> i, op |-> op]

\* A data record, as far as the program looks at it: whether the csv reader
\* accepts it, and what its third column holds.
Records ==
    [kind : {"ok"}, size : 0..MaxWeight]
        \cup {[kind |-> "badsize", size |-> 0], [kind |-> "malformed", size |-> 0]}

Inputs == UNION {[1..n -> Records] : n \in 0..MaxRecords}

\* strconv.ParseInt(record[2], 10, 64) with the error discarded: a column that
\* is not an integer yields 0.
ParseInt(rec) == IF rec.kind = "ok" THEN rec.size ELSE 0

\* csv.Reader.Read on the data record at position j of the input: an error at
\* end of input (io.EOF) and on a structurally malformed record.
ReadFails(j) == IF j > Len(input) THEN TRUE ELSE input[j].kind = "malformed"

----------------------------------------------------------------------------
\* scan

\* Lines 105-121: the input opens and its header is read (scan panics
\* otherwise); line counts the header.
ScanHeader ==
    /\ pc = "start"
    /\ pc' = "scan"
    /\ line' = 1
    /\ UNCHANGED <<input, bucketsN, rpos, scanErr, metas, prev>>
    /\ UNCHANGED packVars
    /\ UNCHANGED writeVars

ScanRecord ==
    /\ pc = "scan"
    /\ ~ReadFails(rpos + 1)
    /\ metas' = Append(metas, [LineNumber |-> line,
                               Size |-> ParseInt(input[rpos + 1])])
    /\ line' = line + 1
    /\ rpos' = rpos + 1
    /\ UNCHANGED <<input, bucketsN, pc, scanErr, prev>>
    /\ UNCHANGED packVars
    /\ UNCHANGED writeVars

ScanEnd ==
    /\ pc = "scan"
    /\ ReadFails(rpos + 1)
    /\ scanErr' = (rpos + 1 <= Len(input))
    /\ pc' = "sort"
    /\ UNCHANGED <<input, bucketsN, line, rpos, metas, prev>>
    /\ UNCHANGED packVars
    /\ UNCHANGED writeVars

----------------------------------------------------------------------------
\* binpack

\* The rearrangements of the indices 1..n.
IndexOrders(n) ==
    {f \in [1..n -> 1..n] : \A a, b \in 1..n : a # b => f[a] # f[b]}

SortSliceAscending(ms) ==
    {p \in {[a \in 1..Len(ms) |-> ms[f[a]]] : f \in IndexOrders(Len(ms))} :
        \A a, b \in 1..Len(ms) : a < b => ~(p[b].Size < p[a].Size)}

\* The orders sort.Slice may leave metas in: less is Size > Size, and the sort
\* is not stable, so records of equal Size end in any order.
SortSlice(ms) ==
    {p \in {[a \in 1..Len(ms) |-> ms[f[a]]] : f \in IndexOrders(Len(ms))} :
        \A a, b \in 1..Len(ms) : a < b => ~(p[b].Size > p[a].Size)}

BinpackSort ==
    /\ pc = "sort"
    /\ metas' \in SortSlice(metas)
    /\ pc' = "make"
    /\ UNCHANGED <<input, bucketsN, prev>>
    /\ UNCHANGED scanVars
    /\ UNCHANGED packVars
    /\ UNCHANGED writeVars

MakeBucketsExtra(n) == [i \in 0..n |-> [TotalSize |-> 0, LineNums |-> {}]]

\* make([]FileBucket, bucketsN), each with an empty LineNums map.
MakeBuckets(n) == [i \in 0..(n - 1) |-> [TotalSize |-> 0, LineNums |-> {}]]

\* make panics on a negative length.
BinpackMake ==
    /\ pc = "make"
    /\ IF bucketsN < 0
          THEN pc' = "panic" /\ UNCHANGED buckets
          ELSE pc' = "assign" /\ buckets' = MakeBuckets(bucketsN)
    /\ UNCHANGED <<input, bucketsN, metas, k, prev>>
    /\ UNCHANGED scanVars
    /\ UNCHANGED writeVars

\* The inner loop of binpack from index i on, minIndex being the best so far.
RECURSIVE MinIndexFrom(_, _, _, _)
MinIndexFrom(bs, n, i, minIndex) ==
    IF i >= n THEN minIndex
    ELSE MinIndexFrom(bs, n, i + 1,
                      IF bs[i].TotalSize < bs[minIndex].TotalSize
                         THEN i ELSE minIndex)

RECURSIVE MinIndexLastFrom(_, _, _, _)
MinIndexLastFrom(bs, n, i, minIndex) ==
    IF i >= n THEN minIndex
    ELSE MinIndexLastFrom(bs, n, i + 1,
                          IF bs[i].TotalSize <= bs[minIndex].TotalSize
                             THEN i ELSE minIndex)

MinIndexLast(bs, n) == MinIndexLastFrom(bs, n, 1, 0)

\* Lines 156-161: the index binpack assigns the next meta to.
RECURSIVE MinIndexHeaviestFrom(_, _, _, _)
MinIndexHeaviestFrom(bs, n, i, minIndex) ==
    IF i >= n THEN minIndex
    ELSE MinIndexHeaviestFrom(bs, n, i + 1,
                              IF bs[i].TotalSize > bs[minIndex].TotalSize
                                 THEN i ELSE minIndex)

MinIndexHeaviest(bs, n) == MinIndexHeaviestFrom(bs, n, 1, 0)

MinIndex(bs, n) == MinIndexFrom(bs, n, 1, 0)

AssignKeyedBySize(bs, n, meta) ==
    LET m == MinIndex(bs, n)
    IN  [bs EXCEPT ![m] = [TotalSize |-> bs[m].TotalSize + meta.Size,
                           LineNums |-> bs[m].LineNums \cup {meta.Size}]]

AssignOverwriteTotal(bs, n, meta) ==
    LET m == MinIndex(bs, n)
    IN  [bs EXCEPT ![m] = [TotalSize |-> meta.Size,
                           LineNums |-> bs[m].LineNums \cup {meta.LineNumber}]]

\* One iteration of the range loop over metas.
Assign(bs, n, meta) ==
    LET m == MinIndex(bs, n)
    IN  [bs EXCEPT ![m] = [TotalSize |-> bs[m].TotalSize + meta.Size,
                           LineNums |-> bs[m].LineNums \cup {meta.LineNumber}]]

\* With bucketsN = 0 the slice is empty and buckets[minIndex] is out of range.
BinpackAssign ==
    /\ pc = "assign"
    /\ k < Len(metas)
    /\ IF bucketsN = 0
          THEN pc' = "panic" /\ UNCHANGED <<k, buckets>>
          ELSE /\ buckets' = Assign(buckets, bucketsN, metas[k + 1])
               /\ k' = k + 1
               /\ UNCHANGED pc
    /\ UNCHANGED <<input, bucketsN, metas, prev>>
    /\ UNCHANGED scanVars
    /\ UNCHANGED writeVars

BinpackReturn ==
    /\ pc = "assign"
    /\ k = Len(metas)
    /\ pc' = "setup"
    /\ UNCHANGED <<input, bucketsN, metas, prev>>
    /\ UNCHANGED scanVars
    /\ UNCHANGED packVars
    /\ UNCHANGED writeVars

----------------------------------------------------------------------------
\* write

\* The memoized line -> bucket map: buckets are visited in index order and a
\* later bucket overwrites the entry of an earlier one.
BuildLineToBucket(bs) ==
    LET lines == UNION {bs[i].LineNums : i \in DOMAIN bs}
    IN  [ln \in lines |->
            CHOOSE i \in DOMAIN bs :
                /\ ln \in bs[i].LineNums
                /\ \A j \in DOMAIN bs : ln \in bs[j].LineNums => j <= i]

\* Lines 188-254: the input is opened, one file and csv.Writer per bucket
\* created, the map built, and one channel and writerRoutine per bucket started.
WriteSetup ==
    /\ pc = "setup"
    /\ files' = [i \in DOMAIN buckets |-> "open"]
    /\ lineToBucket' = BuildLineToBucket(buckets)
    /\ channels' = [i \in DOMAIN buckets |-> <<>>]
    /\ closed' = [i \in DOMAIN buckets |-> FALSE]
    /\ wstate' = [i \in DOMAIN buckets |-> "run"]
    /\ out' = [i \in DOMAIN buckets |-> <<>>]
    /\ sent' = [i \in DOMAIN buckets |-> <<>>]
    /\ access' = [i \in DOMAIN buckets |-> <<>>]
    /\ pc' = "read"
    /\ UNCHANGED <<input, bucketsN, metas, done, got, rd, cur, lineNum, prev>>
    /\ UNCHANGED scanVars
    /\ UNCHANGED packVars

\* r.Read in the write pass; rd = 0 reads the header.
ProducerRead ==
    /\ pc = "read"
    /\ IF rd = 0 THEN TRUE ELSE ~ReadFails(rd)
    /\ cur' = rd
    /\ rd' = rd + 1
    /\ pc' = IF lineNum = 0 THEN "header" ELSE "route"
    /\ UNCHANGED <<input, bucketsN, metas, files, lineToBucket, channels, closed,
                   wstate, done, got, out, lineNum, prev>>
    /\ UNCHANGED <<sent, access>>
    /\ UNCHANGED scanVars
    /\ UNCHANGED packVars

\* Any read error, end of input included, leaves the loop; write returns and
\* its deferred function starts.
ProducerBreak ==
    /\ pc = "read"
    /\ rd > 0 /\ ReadFails(rd)
    /\ pc' = "close"
    /\ UNCHANGED <<input, bucketsN, metas, prev>>
    /\ UNCHANGED scanVars
    /\ UNCHANGED packVars
    /\ UNCHANGED writeVars

ProducerHeaderFirstOnly ==
    /\ pc = "header"
    /\ out' = [i \in DOMAIN out |-> IF i = 0 THEN Append(out[i], cur) ELSE out[i]]
    /\ lineNum' = lineNum + 1
    /\ pc' = "route"
    /\ UNCHANGED <<input, bucketsN, metas, files, lineToBucket, channels, closed,
                   wstate, done, got, rd, cur, prev>>
    /\ access' = [i \in DOMAIN access |->
                     IF i = 0 THEN Append(access[i], ByMain("write")) ELSE access[i]]
    /\ UNCHANGED sent
    /\ UNCHANGED scanVars
    /\ UNCHANGED packVars

\* Lines 263-268: the first record goes to every writer and lineNum becomes 1;
\* control then falls through to the lookup with the same record.
ProducerHeader ==
    /\ pc = "header"
    /\ out' = [i \in DOMAIN out |-> Append(out[i], cur)]
    /\ lineNum' = lineNum + 1
    /\ pc' = "route"
    /\ UNCHANGED <<input, bucketsN, metas, files, lineToBucket, channels, closed,
                   wstate, done, got, rd, cur, prev>>
    /\ access' = [i \in DOMAIN access |-> Append(access[i], ByMain("write"))]
    /\ UNCHANGED sent
    /\ UNCHANGED scanVars
    /\ UNCHANGED packVars

\* Lines 270-281: the lookup of lineNum, and the range check of its bucket.
ProducerRoute ==
    /\ pc = "route"
    /\ IF lineNum \notin DOMAIN lineToBucket
          THEN pc' = "read" /\ lineNum' = lineNum + 1
          ELSE /\ UNCHANGED lineNum
               /\ pc' = IF /\ lineToBucket[lineNum] >= 0
                           /\ lineToBucket[lineNum] < Cardinality(DOMAIN channels)
                           THEN "send" ELSE "exit"
    /\ UNCHANGED <<input, bucketsN, metas, files, lineToBucket, channels, closed,
                   wstate, done, got, out, rd, cur, prev>>
    /\ UNCHANGED <<sent, access>>
    /\ UNCHANGED scanVars
    /\ UNCHANGED packVars

EnqueueFront(ch, rec) == <<rec>> \o ch

\* A send on a channel appends to its buffer.
Enqueue(ch, rec) == Append(ch, rec)

ProducerSendUnbounded ==
    /\ pc = "send"
    /\ channels' = [channels EXCEPT
                      ![lineToBucket[lineNum]] =
                          Enqueue(@, [record |-> cur, lineNum |-> lineNum])]
    /\ lineNum' = lineNum + 1
    /\ pc' = "read"
    /\ UNCHANGED <<input, bucketsN, metas, files, lineToBucket, closed, wstate,
                   done, got, out, rd, cur, prev>>
    /\ sent' = [sent EXCEPT ![lineToBucket[lineNum]] = Append(@, cur)]
    /\ UNCHANGED access
    /\ UNCHANGED scanVars
    /\ UNCHANGED packVars

\* Line 277: the send blocks while the channel's buffer is full.
ProducerSend ==
    /\ pc = "send"
    /\ LET b == lineToBucket[lineNum]
       IN  /\ Len(channels[b]) < ChanCap
           /\ channels' = [channels EXCEPT
                             ![b] = Enqueue(@, [record |-> cur, lineNum |-> lineNum])]
    /\ lineNum' = lineNum + 1
    /\ pc' = "read"
    /\ UNCHANGED <<input, bucketsN, metas, files, lineToBucket, closed, wstate,
                   done, got, out, rd, cur, prev>>
    /\ sent' = [sent EXCEPT ![lineToBucket[lineNum]] = Append(@, cur)]
    /\ UNCHANGED access
    /\ UNCHANGED scanVars
    /\ UNCHANGED packVars

CloseChannelsNone ==
    /\ pc = "close"
    /\ pc' = "wait"
    /\ UNCHANGED <<input, bucketsN, metas, files, lineToBucket, channels, closed,
                   wstate, done, got, out, rd, cur, lineNum, prev>>
    /\ UNCHANGED <<sent, access>>
    /\ UNCHANGED scanVars
    /\ UNCHANGED packVars

\* Deferred function, lines 218-220.
CloseChannels ==
    /\ pc = "close"
    /\ closed' = [i \in DOMAIN closed |-> TRUE]
    /\ pc' = "wait"
    /\ UNCHANGED <<input, bucketsN, metas, files, lineToBucket, channels, wstate,
                   done, got, out, rd, cur, lineNum, prev>>
    /\ UNCHANGED <<sent, access>>
    /\ UNCHANGED scanVars
    /\ UNCHANGED packVars

\* Deferred function, lines 222-224: one receive from done per bucket.
WaitDone ==
    /\ pc = "wait"
    /\ got < Cardinality(DOMAIN buckets)
    /\ done > 0
    /\ done' = done - 1
    /\ got' = got + 1
    /\ UNCHANGED <<input, bucketsN, pc, metas, files, lineToBucket, channels,
                   closed, wstate, out, rd, cur, lineNum, prev>>
    /\ UNCHANGED <<sent, access>>
    /\ UNCHANGED scanVars
    /\ UNCHANGED packVars

FinishEarly ==
    /\ pc = "wait"
    /\ files' = [i \in DOMAIN files |-> "closed"]
    /\ pc' = "done"
    /\ UNCHANGED <<input, bucketsN, metas, lineToBucket, channels, closed, wstate,
                   done, got, out, rd, cur, lineNum, prev>>
    /\ access' = [i \in DOMAIN access |-> Append(access[i], ByMain("flush"))]
    /\ UNCHANGED sent
    /\ UNCHANGED scanVars
    /\ UNCHANGED packVars

\* Deferred function, lines 226-248: no writer reports an error, the input is
\* closed, every writer flushed by the main goroutine and every file closed;
\* split then returns.
Finish ==
    /\ pc = "wait"
    /\ got = Cardinality(DOMAIN buckets)
    /\ files' = [i \in DOMAIN files |-> "closed"]
    /\ pc' = "done"
    /\ UNCHANGED <<input, bucketsN, metas, lineToBucket, channels, closed, wstate,
                   done, got, out, rd, cur, lineNum, prev>>
    /\ access' = [i \in DOMAIN access |-> Append(access[i], ByMain("flush"))]
    /\ UNCHANGED sent
    /\ UNCHANGED scanVars
    /\ UNCHANGED packVars

\* writerRoutine, lines 179-181: one received record is written.
WriterWrite(i) ==
    /\ wstate[i] = "run"
    /\ channels[i] # <<>>
    /\ out' = [out EXCEPT ![i] = Append(@, Head(channels[i]).record)]
    /\ channels' = [channels EXCEPT ![i] = Tail(@)]
    /\ UNCHANGED <<input, bucketsN, pc, metas, files, lineToBucket, closed, wstate,
                   done, got, rd, cur, lineNum, prev>>
    /\ access' = [access EXCEPT ![i] = Append(@, ByWriter(i, "write"))]
    /\ UNCHANGED sent
    /\ UNCHANGED scanVars
    /\ UNCHANGED packVars

WriterFlushEager(i) ==
    /\ wstate[i] = "run"
    /\ channels[i] = <<>>
    /\ wstate' = [wstate EXCEPT ![i] = "flushed"]
    /\ UNCHANGED <<input, bucketsN, pc, metas, files, lineToBucket, channels,
                   closed, done, got, out, rd, cur, lineNum, prev>>
    /\ access' = [access EXCEPT ![i] = Append(@, ByWriter(i, "flush"))]
    /\ UNCHANGED sent
    /\ UNCHANGED scanVars
    /\ UNCHANGED packVars

\* writerRoutine, line 182: the range loop ends once the channel is closed and
\* drained, and the writer is flushed.
WriterFlush(i) ==
    /\ wstate[i] = "run"
    /\ channels[i] = <<>>
    /\ closed[i]
    /\ wstate' = [wstate EXCEPT ![i] = "flushed"]
    /\ UNCHANGED <<input, bucketsN, pc, metas, files, lineToBucket, channels,
                   closed, done, got, out, rd, cur, lineNum, prev>>
    /\ access' = [access EXCEPT ![i] = Append(@, ByWriter(i, "flush"))]
    /\ UNCHANGED sent
    /\ UNCHANGED scanVars
    /\ UNCHANGED packVars

\* writerRoutine, line 183: done is buffered for len(buckets) signals.
WriterDone(i) ==
    /\ wstate[i] = "flushed"
    /\ done < Cardinality(DOMAIN buckets)
    /\ done' = done + 1
    /\ wstate' = [wstate EXCEPT ![i] = "exited"]
    /\ UNCHANGED <<input, bucketsN, pc, metas, files, lineToBucket, channels,
                   closed, got, out, rd, cur, lineNum, prev>>
    /\ UNCHANGED <<sent, access>>
    /\ UNCHANGED scanVars
    /\ UNCHANGED packVars

Writer(i) ==
    /\ i \in DOMAIN wstate
    /\ WriterWrite(i) \/ WriterFlush(i) \/ WriterDone(i)

----------------------------------------------------------------------------

Init ==
    /\ input \in Inputs
    /\ bucketsN \in -1..MaxBuckets
    /\ pc = "start"
    /\ line = 0
    /\ rpos = 0
    /\ scanErr = FALSE
    /\ metas = <<>>
    /\ k = 0
    /\ buckets = <<>>
    /\ files = <<>>
    /\ lineToBucket = <<>>
    /\ channels = <<>>
    /\ closed = <<>>
    /\ wstate = <<>>
    /\ done = 0
    /\ got = 0
    /\ out = <<>>
    /\ rd = 0
    /\ cur = 0
    /\ lineNum = 0
    /\ sent = <<>>
    /\ access = <<>>
    /\ prev = <<>>

Main ==
    \/ ScanHeader
    \/ ScanRecord
    \/ ScanEnd
    \/ BinpackSort
    \/ BinpackMake
    \/ BinpackAssign
    \/ BinpackReturn
    \/ WriteSetup
    \/ ProducerRead
    \/ ProducerBreak
    \/ ProducerHeader
    \/ ProducerRoute
    \/ ProducerSend
    \/ CloseChannels
    \/ WaitDone
    \/ Finish

\* A second invocation of split with the same arguments, on a clean output
\* directory; the outcome of the first is kept for comparison.
Rerun ==
    /\ pc = "done"
    /\ prev = <<>>
    /\ prev' = <<[members |-> [i \in DOMAIN buckets |-> buckets[i].LineNums],
                  out |-> out]>>
    /\ pc' = "start"
    /\ line' = 0
    /\ rpos' = 0
    /\ scanErr' = FALSE
    /\ metas' = <<>>
    /\ k' = 0
    /\ buckets' = <<>>
    /\ files' = <<>>
    /\ lineToBucket' = <<>>
    /\ channels' = <<>>
    /\ closed' = <<>>
    /\ wstate' = <<>>
    /\ done' = 0
    /\ got' = 0
    /\ out' = <<>>
    /\ rd' = 0
    /\ cur' = 0
    /\ lineNum' = 0
    /\ sent' = <<>>
    /\ access' = <<>>
    /\ UNCHANGED <<input, bucketsN>>

Next ==
    \/ Main
    \/ \E i \in DOMAIN wstate : WriterWrite(i)
    \/ \E i \in DOMAIN wstate : WriterFlush(i)
    \/ \E i \in DOMAIN wstate : WriterDone(i)

Spec == Init /\ [][Next]_vars

\* The Go scheduler runs every runnable goroutine: the main goroutine and each
\* writerRoutine take their enabled steps.
FairSpec ==
    /\ Spec
    /\ WF_vars(Main)
    /\ \A i \in 0..(MaxBuckets - 1) : WF_vars(Writer(i))

\* scan and binpack alone, as splitCmd calls them, on inputs whose weights all
\* parse: every input within the Pack bounds, and two fixed inputs.
WeightsInput(ws) == [j \in 1..Len(ws) |-> [kind |-> "ok", size |-> ws[j]]]

ScenarioInput == WeightsInput(<<10, 1, 1, 1, 1>>)

TightInput == WeightsInput(<<3, 3, 2, 2, 2>>)

PackInputs ==
    UNION {[1..n -> [kind : {"ok"}, size : 0..PackWeight]] : n \in 0..PackRecords}
        \cup {ScenarioInput, TightInput}

InitPack ==
    /\ input \in PackInputs
    /\ bucketsN \in 1..PackBuckets
    /\ pc = "start"
    /\ line = 0
    /\ rpos = 0
    /\ scanErr = FALSE
    /\ metas = <<>>
    /\ k = 0
    /\ buckets = <<>>
    /\ files = <<>>
    /\ lineToBucket = <<>>
    /\ channels = <<>>
    /\ closed = <<>>
    /\ wstate = <<>>
    /\ done = 0
    /\ got = 0
    /\ out = <<>>
    /\ rd = 0
    /\ cur = 0
    /\ lineNum = 0
    /\ sent = <<>>
    /\ access = <<>>
    /\ prev = <<>>

NextPack ==
    \/ ScanHeader
    \/ ScanRecord
    \/ ScanEnd
    \/ BinpackSort
    \/ BinpackMake
    \/ BinpackAssign
    \/ BinpackReturn

SpecPack == InitPack /\ [][NextPack]_vars

NextRerun == Next \/ Rerun

SpecRerun == Init /\ [][NextRerun]_vars

\* Failures of the file system during write.

\* Lines 197-201: os.Create fails for file j after files 0..j-1 were created;
\* write panics, and its deferred function is not yet registered (line 217).
CreateFails ==
    /\ pc = "setup"
    /\ \E j \in DOMAIN buckets :
          files' = [i \in DOMAIN buckets |-> IF i < j THEN "open" ELSE "none"]
    /\ pc' = "panic"
    /\ UNCHANGED <<input, bucketsN, metas, lineToBucket, channels, closed, wstate,
                   done, got, out, rd, cur, lineNum, sent, access, prev>>
    /\ UNCHANGED scanVars
    /\ UNCHANGED packVars

\* Deferred function, lines 226-231: a writer reports an error after all
\* signals were received, and os.Exit(1) ends the process at once.
WriterErrorExit ==
    /\ pc = "wait"
    /\ got = Cardinality(DOMAIN buckets)
    /\ DOMAIN buckets # {}
    /\ pc' = "exit"
    /\ UNCHANGED <<input, bucketsN, metas, prev>>
    /\ UNCHANGED scanVars
    /\ UNCHANGED packVars
    /\ UNCHANGED writeVars

\* Deferred function, lines 235-241: writers 0..j-1 are flushed, the flush of
\* writer j reports an error, and os.Exit(1) ends the process at once.
FlushFails ==
    /\ pc = "wait"
    /\ got = Cardinality(DOMAIN buckets)
    /\ \E j \in DOMAIN buckets :
          access' = [i \in DOMAIN access |->
                        IF i <= j THEN Append(access[i], ByMain("flush"))
                                  ELSE access[i]]
    /\ pc' = "exit"
    /\ UNCHANGED <<input, bucketsN, metas, files, lineToBucket, channels, closed,
                   wstate, done, got, out, rd, cur, lineNum, sent, prev>>
    /\ UNCHANGED scanVars
    /\ UNCHANGED packVars

\* Deferred function, lines 243-248: every writer is flushed, files 0..j-1 are
\* closed, the close of file j reports an error, and os.Exit(1) ends the
\* process at once.
CloseFails ==
    /\ pc = "wait"
    /\ got = Cardinality(DOMAIN buckets)
    /\ \E j \in DOMAIN buckets :
          files' = [i \in DOMAIN files |->
                       IF i < j THEN "closed"
                       ELSE IF i = j THEN "failed" ELSE "open"]
    /\ access' = [i \in DOMAIN access |-> Append(access[i], ByMain("flush"))]
    /\ pc' = "exit"
    /\ UNCHANGED <<input, bucketsN, metas, lineToBucket, channels, closed, wstate,
                   done, got, out, rd, cur, lineNum, sent, prev>>
    /\ UNCHANGED scanVars
    /\ UNCHANGED packVars

NextIO ==
    \/ Next
    \/ CreateFails
    \/ WriterErrorExit
    \/ FlushFails
    \/ CloseFails

SpecIO == Init /\ [][NextIO]_vars

----------------------------------------------------------------------------
\* Properties

\* Positions of the main goroutine at which buckets exists.
PackedPCs == {"assign", "setup", "read", "header", "route", "send", "close",
              "wait", "done"}

\* No data record of the input is structurally malformed.
WellFormed == \A j \in 1..Len(input) : input[j].kind # "malformed"

\* The members of S among 1..n, in ascending order.
RECURSIVE Ascending(_, _)
Ascending(S, n) ==
    IF n = 0 THEN <<>>
    ELSE Ascending(S, n - 1) \o (IF n \in S THEN <<n>> ELSE <<>>)

\* Sum of the Size of the first n metas whose LineNumber is in S.
RECURSIVE SizeOfMembers(_, _)
SizeOfMembers(S, n) ==
    IF n = 0 THEN 0
    ELSE SizeOfMembers(S, n - 1)
            + (IF metas[n].LineNumber \in S THEN metas[n].Size ELSE 0)

\* Sum of TotalSize over the buckets 0..(n - 1).
RECURSIVE SumTotals(_)
SumTotals(n) == IF n = 0 THEN 0 ELSE SumTotals(n - 1) + buckets[n - 1].TotalSize

BucketsOf(ln) == {i \in DOMAIN buckets : ln \in buckets[i].LineNums}

\* C1: after split completes, output i holds, after the header, exactly the
\* data records whose scan ordinal is in bucket i's member set, each once, and
\* the header is not routed as a data record.
C1_OutputsFollowScanOrdinals ==
    (pc = "done" /\ bucketsN >= 1 /\ WellFormed) =>
        \A i \in DOMAIN out :
            out[i] = <<0>> \o Ascending(buckets[i].LineNums, Len(input))

\* C2: during and after binpack with bucketsN >= 1, every ordinal assigned so
\* far is in exactly one bucket's member set, and no bucket holds an ordinal
\* that is not one of the assigned metas.
C2_Partition ==
    (pc \in PackedPCs /\ bucketsN >= 1) =>
        /\ \A j \in 1..k : Cardinality(BucketsOf(metas[j].LineNumber)) = 1
        /\ \A i \in DOMAIN buckets :
              buckets[i].LineNums \subseteq {metas[j].LineNumber : j \in 1..k}

C2_Witness ==
    /\ pc = "setup"
    /\ bucketsN = 2
    /\ k = Len(metas)
    /\ k >= 3
    /\ \A i \in DOMAIN buckets : buckets[i].LineNums # {}

\* C3: during and after binpack, each bucket's TotalSize is the sum of the
\* weights of the records in its member set, and the bucket totals add up to
\* the sum of the weights assigned so far (all scanned weights at the end).
C3_WeightConservation ==
    (pc \in PackedPCs /\ bucketsN >= 1) =>
        /\ \A i \in DOMAIN buckets :
              buckets[i].TotalSize = SizeOfMembers(buckets[i].LineNums, k)
        /\ SumTotals(bucketsN) = SizeOfMembers({metas[j].LineNumber : j \in 1..k}, k)

C3_Witness ==
    /\ pc = "setup"
    /\ bucketsN = 2
    /\ k = Len(metas)
    /\ k >= 3
    /\ \A i \in DOMAIN buckets : buckets[i].TotalSize >= 2

\* C4: in every output, at every moment, the records appear in the order in
\* which the producer read them from the input.
C4_OrderPreserved ==
    \A i \in DOMAIN out :
        \A p, q \in 1..Len(out[i]) : p < q => out[i][p] <= out[i][q]

C4_Witness ==
    /\ pc = "done"
    /\ bucketsN = 2
    /\ \E i \in DOMAIN out :
          \E p, q \in 1..Len(out[i]) : p < q /\ 0 < out[i][p] /\ out[i][p] < out[i][q]

\* C5: after split completes with bucketsN >= 1, every output holds the header
\* exactly once, as its first record.
C5_HeaderExactlyOnce ==
    (pc = "done" /\ bucketsN >= 1) =>
        \A i \in DOMAIN out :
            /\ Len(out[i]) >= 1
            /\ out[i][1] = 0
            /\ Cardinality({p \in 1..Len(out[i]) : out[i][p] = 0}) = 1

\* C6: with bucketsN >= 1 binpack never crashes and yields exactly bucketsN
\* buckets; with fewer records than buckets some bucket is empty (total 0, no
\* members); the run goes on until split has completed, and then the output of
\* every empty bucket holds the header only.
C6_ExactlyBBuckets ==
    bucketsN >= 1 =>
        /\ pc \notin {"panic", "exit"}
        /\ pc \in PackedPCs => DOMAIN buckets = 0..(bucketsN - 1)
        /\ (pc \in PackedPCs /\ k = Len(metas) /\ Len(metas) < bucketsN) =>
              \E i \in DOMAIN buckets :
                  buckets[i].LineNums = {} /\ buckets[i].TotalSize = 0
        /\ \A i \in DOMAIN buckets :
              buckets[i].LineNums = {} => buckets[i].TotalSize = 0
        /\ pc = "done" =>
              \A i \in DOMAIN buckets :
                  buckets[i].LineNums = {} => out[i] = <<0>>

C6_Terminates ==
    /\ [](C6_ExactlyBBuckets)
    /\ (bucketsN >= 1) ~> (pc = "done" /\ \A i \in DOMAIN wstate : wstate[i] = "exited")

C6_Witness ==
    /\ pc = "done"
    /\ bucketsN = 2
    /\ Len(metas) = 1
    /\ buckets[1].LineNums = {}
    /\ out[1] = <<0>>
    /\ Len(out[0]) > 1

\* C7: split with bucketsN <= 0 fails, and before any I/O: the input is not
\* scanned, no output is created, and the run never completes.
C7_BadCountFailsBeforeIO ==
    bucketsN <= 0 =>
        /\ pc # "done"
        /\ line = 0
        /\ rd = 0
        /\ files = <<>>

\* C8: once binpack has assigned every meta, a scanned record whose weight
\* column does not parse is in no bucket's member set, and every other
\* scanned record is in exactly one.
C8_BadWeightExcluded ==
    (pc \in PackedPCs /\ k = Len(metas) /\ bucketsN >= 1) =>
        \A j \in 1..rpos :
            IF input[j].kind = "badsize"
               THEN BucketsOf(j) = {}
               ELSE Cardinality(BucketsOf(j)) = 1

\* C9: a read error other than end of input during the scan is fatal: the run
\* never goes on to partition and write.
C9_ScanErrorIsFatal ==
    scanErr => pc \notin PackedPCs

\* C10: a second run on the same input and bucket count ends with the same
\* assignment of ordinals to buckets and the same outputs as the first.
C10_Deterministic ==
    (pc = "done" /\ prev # <<>>) =>
        /\ [i \in DOMAIN buckets |-> buckets[i].LineNums] = prev[1].members
        /\ out = prev[1].out

\* C11: a channel is closed only once the producer has stopped sending, and
\* only once; a writer flushes and signals only after its channel is closed
\* and drained; the main goroutine touches the writers again and closes the
\* files only after all bucketsN signals; so a closed file's writer holds the
\* header and every record sent to its channel.
C11_ShutdownState ==
    /\ \A i \in DOMAIN closed : closed[i] => pc \in {"wait", "done"}
    /\ \A i \in DOMAIN wstate :
          wstate[i] \in {"flushed", "exited"} =>
              /\ closed[i]
              /\ channels[i] = <<>>
              /\ access[i] # <<>>
              /\ ByWriter(i, "flush") \in {access[i][p] : p \in 1..Len(access[i])}
    /\ done + got = Cardinality({j \in DOMAIN wstate : wstate[j] = "exited"})
    /\ \A i \in DOMAIN files :
          (files[i] = "closed"
              \/ ByMain("flush") \in {access[i][p] : p \in 1..Len(access[i])}) =>
              /\ got = bucketsN
              /\ \A j \in DOMAIN wstate : wstate[j] = "exited"
              /\ out[i] = <<0>> \o sent[i]

C11_ShutdownOrder ==
    /\ [](C11_ShutdownState)
    /\ [][\A i \in DOMAIN closed :
             /\ closed[i] => (closed'[i] /\ sent'[i] = sent[i])
             /\ (~closed[i] /\ closed'[i]) => \A j \in DOMAIN closed : ~closed[j]]_vars

C11_Witness ==
    /\ pc = "done"
    /\ bucketsN = 2
    /\ \A i \in DOMAIN files : files[i] = "closed" /\ Len(sent[i]) >= 1


WritePCs == {"read", "header", "route", "send", "close", "wait"}

Exited == {j \in DOMAIN wstate : wstate[j] = "exited"}

\* C12: with bucketsN >= 1 and fair scheduling the write stage never gets
\* stuck and ends: from every state of the write stage the run reaches the
\* state in which every channel is drained, every writer has exited, having
\* signalled once, and the main goroutine has received all bucketsN signals
\* and closed every file.
C12_WriteStageTerminates ==
    /\ [](bucketsN >= 1 => (done + got = Cardinality(Exited) /\ got <= bucketsN))
    /\ (bucketsN >= 1 /\ pc \in WritePCs) ~>
          /\ pc = "done"
          /\ got = bucketsN
          /\ done = 0
          /\ Exited = DOMAIN wstate
          /\ \A i \in DOMAIN channels : channels[i] = <<>>
          /\ \A i \in DOMAIN files : files[i] = "closed"

C12_Witness ==
    /\ pc = "done"
    /\ bucketsN = 2
    /\ got = 2
    /\ Exited = {0, 1}
    /\ Len(sent[0]) + Len(sent[1]) >= 3
    /\ \A i \in DOMAIN files : files[i] = "closed"


\* The lowest index among the buckets of minimal TotalSize.
FirstLightest ==
    CHOOSE i \in DOMAIN buckets :
        \A j \in DOMAIN buckets :
            \/ buckets[i].TotalSize < buckets[j].TotalSize
            \/ buckets[i].TotalSize = buckets[j].TotalSize /\ i <= j

\* C13: every assignment step of binpack puts the record in a bucket of
\* minimal TotalSize, the lowest-indexed one on ties; that bucket's total grows
\* by the record's weight and its member set gains the record's ordinal, and
\* every other bucket is unchanged.
C13_GreedyStep ==
    [][(pc = "assign" /\ k' = k + 1) =>
          LET m == FirstLightest
              meta == metas[k + 1]
          IN  /\ \A j \in DOMAIN buckets :
                    buckets[m].TotalSize <= buckets[j].TotalSize
              /\ buckets'[m].TotalSize = buckets[m].TotalSize + meta.Size
              /\ meta.LineNumber \notin buckets[m].LineNums
              /\ buckets'[m].LineNums = buckets[m].LineNums \cup {meta.LineNumber}
              /\ DOMAIN buckets' = DOMAIN buckets
              /\ \A j \in DOMAIN buckets : j # m => buckets'[j] = buckets[j]]_vars

C13_Witness ==
    /\ pc = "assign"
    /\ bucketsN = 2
    /\ k = 3
    /\ buckets[0].TotalSize = buckets[1].TotalSize + metas[3].Size
    /\ metas[3].Size > 0
    /\ metas[3].LineNumber \in buckets[0].LineNums


\* C14: once sorted, metas is in order of weight descending, and records of
\* equal weight are in ascending order of their ordinal.
C14_SortedByWeightThenOrdinal ==
    (pc = "make" \/ pc \in PackedPCs) =>
        \A a, b \in 1..Len(metas) :
            a < b =>
                \/ metas[a].Size > metas[b].Size
                \/ /\ metas[a].Size = metas[b].Size
                   /\ metas[a].LineNumber < metas[b].LineNumber


\* Sum of the Size of all metas.
TotalWeight == SizeOfMembers({metas[j].LineNumber : j \in 1..Len(metas)}, Len(metas))

\* The largest TotalSize among the buckets.
MaxTotal ==
    LET i == CHOOSE a \in DOMAIN buckets :
                 \A b \in DOMAIN buckets : buckets[a].TotalSize >= buckets[b].TotalSize
    IN  buckets[i].TotalSize

\* The total weight an assignment f of metas to buckets gives bucket i.
RECURSIVE LoadOf(_, _, _)
LoadOf(f, i, n) ==
    IF n = 0 THEN 0
    ELSE LoadOf(f, i, n - 1) + (IF f[n] = i THEN metas[n].Size ELSE 0)

\* The largest bucket total under assignment f.
MakespanOf(f) ==
    LET loads == {LoadOf(f, i, Len(metas)) : i \in DOMAIN buckets}
    IN  CHOOSE m \in loads : \A x \in loads : m >= x

\* The smallest achievable largest bucket total, over all assignments.
Optimum ==
    LET spans == {MakespanOf(f) : f \in [1..Len(metas) -> DOMAIN buckets]}
    IN  CHOOSE m \in spans : \A x \in spans : m <= x

\* C15: when binpack returns, the largest bucket total is within the
\* longest-processing-time bound of the optimum:
\* 3 * B * max <= (4 * B - 1) * OPT.
C15_LptBound ==
    (pc = "setup" /\ bucketsN >= 1) =>
        3 * bucketsN * MaxTotal <= (4 * bucketsN - 1) * Optimum

C15_Witness ==
    /\ pc = "setup"
    /\ bucketsN = 2
    /\ input = TightInput
    /\ MaxTotal > Optimum


----------------------------------------------------------------------------
\* C16: no channel ever holds more than ChanCap records.  While the producer
\* is at the send and the target channel is full, the producer stays at the
\* send with the same record and ordinal, and the only change to the target
\* channel is its writer taking the head; when the producer leaves the send,
\* the target channel had room and gets exactly the pending record appended at
\* its tail, every other channel unchanged.
C16_Backpressure ==
    /\ [](\A i \in DOMAIN channels : Len(channels[i]) <= ChanCap)
    /\ [][pc = "send" =>
            LET b == lineToBucket[lineNum]
            IN  IF pc' = "send"
                   THEN /\ cur' = cur /\ lineNum' = lineNum /\ rd' = rd
                        /\ sent' = sent
                        /\ \A i \in DOMAIN channels :
                              \/ channels'[i] = channels[i]
                              \/ /\ channels[i] # <<>>
                                 /\ channels'[i] = Tail(channels[i])
                                 /\ access'[i] =
                                       Append(access[i], ByWriter(i, "write"))
                   ELSE /\ pc' = "read"
                        /\ Len(channels[b]) < ChanCap
                        /\ channels' =
                              [channels EXCEPT
                                 ![b] = Append(@, [record |-> cur,
                                                   lineNum |-> lineNum])]
                        /\ sent'[b] = Append(sent[b], cur)]_vars
    /\ [][(pc = "send" /\ Len(channels[lineToBucket[lineNum]]) = ChanCap)
             => pc' = "send"]_vars

\* The producer is blocked at a send on a full channel.
C16_Witness ==
    /\ pc = "send"
    /\ Len(channels[lineToBucket[lineNum]]) = ChanCap
    /\ wstate[lineToBucket[lineNum]] = "run"


----------------------------------------------------------------------------
\* C17, as stated: every write to and every flush of bucket i's stream is made
\* by writer i, and by no other goroutine.
C17_ExclusiveOwnership ==
    \A i \in DOMAIN access :
        \A p \in DOMAIN access[i] : access[i][p].by = "writer" /\ access[i][p].idx = i

\* C17, as the code orders the accesses: writer i is the only consumer of
\* channel i and the only goroutine that writes the records sent to bucket i; no writer touches
\* another bucket's stream.  The main goroutine touches stream i twice, never
\* while writer i can run on it: it writes the header first, when nothing has
\* been sent and channel i is empty, and it flushes last, after writer i has
\* exited and every completion signal has been received.
C17_OwnershipHandoff ==
    /\ [](\A i \in DOMAIN access :
            \A p \in DOMAIN access[i] :
               IF access[i][p].by = "writer"
                  THEN access[i][p].idx = i
                  ELSE \/ p = 1 /\ access[i][p] = ByMain("write")
                       \/ /\ p = Len(access[i]) /\ p > 1
                          /\ access[i][p] = ByMain("flush")
                          /\ wstate[i] = "exited" /\ pc = "done")
    /\ [][\A i \in DOMAIN access :
            /\ Len(channels'[i]) < Len(channels[i]) =>
                  /\ channels'[i] = Tail(channels[i])
                  /\ access'[i] = Append(access[i], ByWriter(i, "write"))
                  /\ out'[i] = Append(out[i], Head(channels[i]).record)
            /\ (access'[i] # access[i] /\ access'[i][Len(access'[i])].by = "main") =>
                  /\ channels[i] = <<>>
                  /\ \/ sent[i] = <<>> /\ wstate[i] = "run"
                     \/ wstate[i] = "exited" /\ got = Cardinality(DOMAIN buckets)
          ]_vars

\* A finished run in which a stream was written by the main goroutine (the
\* header), then written and flushed by its writer, then flushed by the main
\* goroutine.
C17_Witness ==
    /\ pc = "done"
    /\ \E i \in DOMAIN access :
          /\ Len(access[i]) >= 4
          /\ access[i][1] = ByMain("write")
          /\ access[i][2] = ByWriter(i, "write")
          /\ access[i][Len(access[i]) - 1] = ByWriter(i, "flush")
          /\ access[i][Len(access[i])] = ByMain("flush")


----------------------------------------------------------------------------
\* C18: once anything has been sent on a channel or written by a writer, the
\* first access to every stream is the main goroutine's write of the header
\* (input record 0); and the step that writes the header is taken while every
\* channel is empty, nothing has been sent and no writer has touched its
\* stream, so no writer can write during it.
C18_HeaderBeforeRecords ==
    /\ [](\A i \in DOMAIN access :
            (\/ \E j \in DOMAIN sent : sent[j] # <<>>
             \/ \E j \in DOMAIN channels : channels[j] # <<>>
             \/ \E p \in DOMAIN access[i] : access[i][p].by = "writer")
            => /\ access[i] # <<>> /\ access[i][1] = ByMain("write")
               /\ out[i] # <<>> /\ out[i][1] = 0)
    /\ [][\A i \in DOMAIN access :
            (access'[i] # access[i]
               /\ access'[i][Len(access'[i])] = ByMain("write"))
            => /\ pc = "header" /\ pc' = "route"
               /\ \A j \in DOMAIN channels :
                     /\ channels[j] = <<>> /\ sent[j] = <<>>
                     /\ wstate[j] = "run"
                     /\ access[j] = <<>> /\ access'[j] = <<ByMain("write")>>
                     /\ out[j] = <<>> /\ out'[j] = <<0>>
          ]_vars

\* With two buckets, a writer has written a record after the header.
C18_Witness ==
    /\ bucketsN = 2
    /\ \E i \in DOMAIN access :
          /\ Len(access[i]) >= 2
          /\ access[i][1] = ByMain("write")
          /\ access[i][2] = ByWriter(i, "write")
    /\ \A i \in DOMAIN out : out[i] # <<>> /\ out[i][1] = 0


----------------------------------------------------------------------------
\* C19: when the write stage has aborted, by a panic or by os.Exit, no output
\* file that was opened is still open.
C19_AbortClosesOutputs ==
    pc \in {"panic", "exit"} => \A i \in DOMAIN files : files[i] # "open"


----------------------------------------------------------------------------
\* No Size exceeds the ideal average TotalWeight / bucketsN.
NoWeightAboveAverage ==
    \A j \in 1..Len(metas) : metas[j].Size * bucketsN <= TotalWeight

\* C20: when binpack returns for weights 10,1,1,1,1 and two buckets, one
\* bucket holds line 1 alone with total 10 and the other holds lines 2..5 with
\* total 4, and the largest total is at most twice the ideal average; and for
\* every input in which no weight exceeds the ideal average, the largest total
\* is at most twice the ideal average (integer division, as Go divides).
C20_TwiceAverage ==
    pc = "setup" =>
        /\ (input = ScenarioInput /\ bucketsN = 2) =>
              /\ \E a, b \in DOMAIN buckets :
                    /\ a # b
                    /\ buckets[a] = [TotalSize |-> 10, LineNums |-> {1}]
                    /\ buckets[b] = [TotalSize |-> 4, LineNums |-> {2, 3, 4, 5}]
              /\ MaxTotal = 10
              /\ MaxTotal <= 2 * (TotalWeight \div bucketsN)
        /\ NoWeightAboveAverage =>
              MaxTotal <= 2 * (TotalWeight \div bucketsN)

\* binpack has returned for the scenario input and two buckets.
C20_Witness ==
    /\ pc = "setup" /\ input = ScenarioInput /\ bucketsN = 2
    /\ Len(metas) = 5 /\ TotalWeight = 14
    /\ buckets[0].LineNums = {1} /\ buckets[1].TotalSize = 4

====
